---- MODULE Spec2Model ----
(***************************************************************************)
(* Resource-usage hazard tracker of wgpu-native (src/track.rs).            *)
(*                                                                         *)
(* A Tracker maps a slot index to a Track {ref_count, init, last, epoch}.  *)
(* The model keeps two trackers: "A", the `self` of the merge operations,  *)
(* and "B", their `other`.  The ref_count field is a cloned liveness token *)
(* that no operation of the tracker reads; it is left out.  A failed       *)
(* assert_eq! (generation mismatch) is a panic: `fatal` becomes TRUE and   *)
(* no further operation runs.                                              *)
(*                                                                         *)
(* map   the entries of each tracker, by slot index                        *)
(* ret   the last call: its arguments and what it returned                 *)
(* iter  the lazy iterator returned by consume_by_replace while it lives:  *)
(*       the iteration order of other, the entries folded so far, the      *)
(*       transitions yielded so far, and self as it was at the call        *)
(* nops  the number of method calls made (bounded by MaxOps)               *)
(* hist  the usages requested so far (SpecExtend only)                     *)
(* views the entries of each DummyTracker, by slot index (SpecViews only)  *)
(* walks the lazy iterators returned by used() that are alive (SpecUsed     *)
(*       only): the tracker, its iteration order, the handles yielded      *)
(***************************************************************************)
EXTENDS Integers, Sequences, FiniteSets, TLC

VARIABLES map, ret, iter, fatal, nops, hist, views, walks

vars == <<map, ret, iter, fatal, nops, hist, views, walks>>

(* ---------------------------- bounds ----------------------------------- *)
\* number of resource slots
MaxIndex == 2
\* number of method calls in a run of Spec and of SpecTracker
MaxOps == 4
\* number of transit calls in a run of SpecExtend
MaxSeq == 4

Trackers == {"A", "B"}
Indices == 1..MaxIndex
Epochs == {1, 2}
\* the handles (index, epoch) the callers hold: one per slot, and a second
\* generation of slot 1, which has been recycled once
Handles == {h \in Indices \X Epochs : h[2] = 1 \/ h[1] = 1}

(* ------------------------- usage algebra ------------------------------- *)
RECURSIVE BitAnd(_, _)
BitAnd(a, b) ==
    IF a = 0 \/ b = 0 THEN 0
    ELSE (a % 2) * (b % 2) + 2 * BitAnd(a \div 2, b \div 2)

RECURSIVE BitOr(_, _)
BitOr(a, b) ==
    IF a = 0 THEN b
    ELSE IF b = 0 THEN a
    ELSE (IF a % 2 = 1 \/ b % 2 = 1 THEN 1 ELSE 0) + 2 * BitOr(a \div 2, b \div 2)

\* usage flags of the external flag type (resource.rs): two read modes, one write mode
MAP_READ == 1
MAP_WRITE == 2
TRANSFER_SRC == 4
WRITE_ALL == MAP_WRITE

Flags == {MAP_READ, MAP_WRITE, TRANSFER_SRC}
\* every value a usage field can hold: any union of flags, the empty one included
AllUsages == 0..(MAP_READ + MAP_WRITE + TRANSFER_SRC)

is_exclusive(u) == BitAnd(WRITE_ALL, u) # 0

(* ------------------------- TrackPermit --------------------------------- *)
EXTEND == 1
REPLACE == 2
Permits == 0..(EXTEND + REPLACE)

contains(permit, flag) == BitAnd(permit, flag) = flag

(* ------------------------- Track entries ------------------------------- *)
NoTrack == [present |-> FALSE, init |-> 0, last |-> 0, epoch |-> 0]
Track(init, last, epoch) == [present |-> TRUE, init |-> init, last |-> last, epoch |-> epoch]

EmptyMap == [i \in Indices |-> NoTrack]

Keys(m) == {i \in Indices : m[i].present}

\* a transition (I, Range<U>) handed to the backend
Transition(index, epoch, old, new) == [index |-> index, epoch |-> epoch, old |-> old, new |-> new]
NoTransition == Transition(0, 0, 0, 0)

\* the orders in which a hash map with key set S can be iterated
Orders(S) == {s \in [1..Cardinality(S) -> S] : \A i, j \in 1..Cardinality(S) : i # j => s[i] # s[j]}

(* ----------------------- DummyTracker methods -------------------------- *)
\* an entry (RefCount, Epoch) of a DummyTracker, and a vacant slot
NoView == [present |-> FALSE, epoch |-> 0]

View(epoch) == [present |-> TRUE, epoch |-> epoch]

\* DummyTracker::new
EmptyViews == [i \in Indices |-> NoView]

\* DummyTracker::remove
dummy_remove(v, index, epoch) ==
    IF v[index].present
    THEN [map |-> [v EXCEPT ![index] = NoView],
          tag |-> IF v[index].epoch = epoch THEN "true" ELSE "Panic"]
    ELSE [map |-> v, tag |-> "false"]

\* query that inserts over an occupied slot
dummy_query_reinserts(v, index, epoch) ==
    [map |-> [v EXCEPT ![index] = View(epoch)], tag |-> "true"]

\* DummyTracker::query
dummy_query(v, index, epoch) ==
    IF ~v[index].present
    THEN [map |-> [v EXCEPT ![index] = View(epoch)], tag |-> "true"]
    ELSE [map |-> v, tag |-> IF v[index].epoch = epoch THEN "false" ELSE "Panic"]

\* the for loop of DummyTracker::consume from position k of other's iteration
\* order; a panicking query ends it
RECURSIVE dummy_consume_loop(_, _, _, _)
dummy_consume_loop(v, o, order, k) ==
    IF k > Len(order) THEN [map |-> v, tag |-> "Ok"]
    ELSE LET r == dummy_query(v, order[k], o[order[k]].epoch) IN
         IF r.tag = "Panic" THEN [map |-> r.map, tag |-> "Panic"]
         ELSE dummy_consume_loop(r.map, o, order, k + 1)

\* DummyTracker::consume
dummy_consume(v, o, order) == dummy_consume_loop(v, o, order, 1)

(* ------------------------- Tracker methods ----------------------------- *)
\* remove that reports the entry as removed and leaves it in the map
remove_keeps_entry(m, index, epoch) ==
    IF m[index].present
    THEN [map |-> m, tag |-> IF m[index].epoch = epoch THEN "true" ELSE "Panic"]
    ELSE [map |-> m, tag |-> "false"]

\* Tracker::remove
remove(m, index, epoch) ==
    IF m[index].present
    THEN [map |-> [m EXCEPT ![index] = NoTrack],
          tag |-> IF m[index].epoch = epoch THEN "true" ELSE "Panic"]
    ELSE [map |-> m, tag |-> "false"]

\* query that reports the initial usage of a tracked entry instead of the last one
query_returns_init(m, index, epoch, default) ==
    IF ~m[index].present
    THEN [map |-> [m EXCEPT ![index] = Track(default, default, epoch)],
          tag |-> "Query", usage |-> default, initialized |-> TRUE]
    ELSE IF m[index].epoch # epoch
    THEN [map |-> m, tag |-> "Panic", usage |-> 0, initialized |-> FALSE]
    ELSE [map |-> m, tag |-> "Query", usage |-> m[index].init, initialized |-> FALSE]

\* Tracker::query
query(m, index, epoch, default) ==
    IF ~m[index].present
    THEN [map |-> [m EXCEPT ![index] = Track(default, default, epoch)],
          tag |-> "Query", usage |-> default, initialized |-> TRUE]
    ELSE IF m[index].epoch # epoch
    THEN [map |-> m, tag |-> "Panic", usage |-> 0, initialized |-> FALSE]
    ELSE [map |-> m, tag |-> "Query", usage |-> m[index].last, initialized |-> FALSE]

\* the branches of transit on a tracked entry whose generation matches, with the
\* order of the checks and the values written as parameters of the variation
transit_variant(m, index, usage, permit, replace_first, write_union, err_old, err_keeps) ==
    LET old      == m[index].last
        extend   == contains(permit, EXTEND) /\ ~is_exclusive(BitOr(old, usage))
        replace  == contains(permit, REPLACE)
        extended == [map |-> [m EXCEPT ![index].last = IF write_union THEN BitOr(old, usage) ELSE usage],
                     tag |-> "Extend", old |-> old]
        replaced == [map |-> [m EXCEPT ![index].last = usage], tag |-> "Replace", old |-> old]
    IN  IF usage = old THEN [map |-> m, tag |-> "Keep", old |-> 0]
        ELSE IF replace_first /\ replace THEN replaced
        ELSE IF extend THEN extended
        ELSE IF replace THEN replaced
        ELSE [map |-> IF err_keeps THEN m ELSE [m EXCEPT ![index].last = usage],
              tag |-> "Err", old |-> IF err_old THEN old ELSE usage]

transit_with(m, index, epoch, usage, permit, replace_first, write_union, err_old, err_keeps) ==
    IF ~m[index].present
    THEN [map |-> [m EXCEPT ![index] = Track(usage, usage, epoch)], tag |-> "Init", old |-> 0]
    ELSE IF m[index].epoch # epoch
    THEN [map |-> m, tag |-> "Panic", old |-> 0]
    ELSE transit_variant(m, index, usage, permit, replace_first, write_union, err_old, err_keeps)

\* transit that tries the replace policy before the extend policy
transit_replace_first(m, index, epoch, usage, permit) ==
    transit_with(m, index, epoch, usage, permit, TRUE, TRUE, TRUE, TRUE)

\* transit that stores the requested usage, not the union, when it extends
transit_extend_overwrites(m, index, epoch, usage, permit) ==
    transit_with(m, index, epoch, usage, permit, FALSE, FALSE, TRUE, TRUE)

\* transit whose hazard carries the requested usage, not the prior one
transit_err_requested(m, index, epoch, usage, permit) ==
    transit_with(m, index, epoch, usage, permit, FALSE, TRUE, FALSE, TRUE)

\* transit that stores the requested usage before it reports the hazard
transit_err_mutates(m, index, epoch, usage, permit) ==
    transit_with(m, index, epoch, usage, permit, FALSE, TRUE, TRUE, FALSE)

\* transit that extends under the extend permit without the exclusivity check
transit_extend_unchecked(m, index, epoch, usage, permit) ==
    IF m[index].present /\ m[index].epoch = epoch /\ m[index].last # usage
       /\ contains(permit, EXTEND)
    THEN [map |-> [m EXCEPT ![index].last = BitOr(m[index].last, usage)],
          tag |-> "Extend", old |-> m[index].last]
    ELSE transit_with(m, index, epoch, usage, permit, FALSE, TRUE, TRUE, TRUE)

\* transit that extends whenever the union is non-exclusive, whatever the permit
transit_ignores_permit(m, index, epoch, usage, permit) ==
    transit_with(m, index, epoch, usage, EXTEND + REPLACE, FALSE, TRUE, TRUE, TRUE)

\* Tracker::transit
transit(m, index, epoch, usage, permit) ==
    IF ~m[index].present
    THEN [map |-> [m EXCEPT ![index] = Track(usage, usage, epoch)], tag |-> "Init", old |-> 0]
    ELSE IF m[index].epoch # epoch
    THEN [map |-> m, tag |-> "Panic", old |-> 0]
    ELSE LET old == m[index].last IN
         IF usage = old
         THEN [map |-> m, tag |-> "Keep", old |-> 0]
         ELSE IF contains(permit, EXTEND) /\ ~is_exclusive(BitOr(old, usage))
         THEN [map |-> [m EXCEPT ![index].last = BitOr(old, usage)], tag |-> "Extend", old |-> old]
         ELSE IF contains(permit, REPLACE)
         THEN [map |-> [m EXCEPT ![index].last = usage], tag |-> "Replace", old |-> old]
         ELSE [map |-> m, tag |-> "Err", old |-> old]

\* Tracktion::into_source
into_source(tag, old) == IF tag \in {"Extend", "Replace"} THEN <<old>> ELSE <<>>

\* the closure of consume_by_replace on an entry tracked by both trackers, with the
\* usage compared for the skip and the end of the range as parameters of the variation
replace_variant(m, index, new, skip_on, range_end) ==
    IF ~m[index].present
    THEN [map |-> [m EXCEPT ![index] = new], tag |-> "None", tr |-> NoTransition]
    ELSE IF m[index].epoch # new.epoch
    THEN [map |-> m, tag |-> "Panic", tr |-> NoTransition]
    ELSE LET old == m[index].last IN
         [map |-> [m EXCEPT ![index].last = new.last],
          tag |-> IF old = skip_on THEN "None" ELSE "Some",
          tr  |-> IF old = skip_on THEN NoTransition
                  ELSE Transition(index, new.epoch, old, range_end)]

\* closure that skips the transition when the old usage equals other's last usage
replace_entry_skip_on_last(m, index, new) == replace_variant(m, index, new, new.last, new.last)

\* closure that reports the range old .. other.init
replace_entry_range_to_init(m, index, new) == replace_variant(m, index, new, new.init, new.init)

\* closure that emits the transition and leaves self's last usage as it was
replace_entry_keeps_last(m, index, new) ==
    LET r == replace_variant(m, index, new, new.init, new.last) IN
    IF m[index].present /\ r.tag # "Panic" THEN [r EXCEPT !.map = m] ELSE r

\* closure that clones other's entry over an entry self already tracks
replace_entry_clones(m, index, new) ==
    LET r == replace_variant(m, index, new, new.init, new.last) IN
    IF m[index].present /\ r.tag # "Panic" THEN [r EXCEPT !.map = [m EXCEPT ![index] = new]] ELSE r

\* Storage::get: the resource object stored for a handle
storage_get(index, epoch) == [index |-> index, epoch |-> epoch]

\* Tracker::get_with_extended_usage: Ok carries the item alone
get_with_extended_usage(m, index, epoch, usage) ==
    LET r == transit(m, index, epoch, usage, EXTEND) IN
    IF r.tag \in {"Err", "Panic"}
    THEN [map |-> r.map, tag |-> r.tag, old |-> r.old, item |-> <<>>, prior |-> <<>>]
    ELSE [map |-> r.map, tag |-> "Ok", old |-> 0, item |-> <<storage_get(index, epoch)>>,
          prior |-> <<>>]

\* get_with_replaced_usage that passes the extend permit
get_with_replaced_usage_extends(m, index, epoch, usage) ==
    LET r == transit(m, index, epoch, usage, EXTEND) IN
    IF r.tag \in {"Err", "Panic"}
    THEN [map |-> r.map, tag |-> r.tag, old |-> r.old, item |-> <<>>, prior |-> <<>>]
    ELSE IF r.tag = "Extend"
    THEN [map |-> r.map, tag |-> "Unreachable", old |-> 0, item |-> <<>>, prior |-> <<>>]
    ELSE [map |-> r.map, tag |-> "Ok", old |-> 0, item |-> <<storage_get(index, epoch)>>,
          prior |-> IF r.tag = "Replace" THEN <<r.old>> ELSE <<>>]

\* Tracker::get_with_replaced_usage: Ok carries the item and Option<old>;
\* the Extend arm is unreachable!()
get_with_replaced_usage(m, index, epoch, usage) ==
    LET r == transit(m, index, epoch, usage, REPLACE) IN
    IF r.tag \in {"Err", "Panic"}
    THEN [map |-> r.map, tag |-> r.tag, old |-> r.old, item |-> <<>>, prior |-> <<>>]
    ELSE IF r.tag = "Extend"
    THEN [map |-> r.map, tag |-> "Unreachable", old |-> 0, item |-> <<>>, prior |-> <<>>]
    ELSE [map |-> r.map, tag |-> "Ok", old |-> 0, item |-> <<storage_get(index, epoch)>>,
          prior |-> IF r.tag = "Replace" THEN <<r.old>> ELSE <<>>]

\* closure without the assert_eq! on the generations
replace_entry_unasserted(m, index, new) ==
    IF ~m[index].present
    THEN [map |-> [m EXCEPT ![index] = new], tag |-> "None", tr |-> NoTransition]
    ELSE LET old == m[index].last IN
         [map |-> [m EXCEPT ![index].last = new.last],
          tag |-> IF old = new.init THEN "None" ELSE "Some",
          tr  |-> IF old = new.init THEN NoTransition
                  ELSE Transition(index, new.epoch, old, new.last)]

\* body of the closure of Tracker::consume_by_replace, applied to one entry of `other`
replace_entry(m, index, new) ==
    IF ~m[index].present
    THEN [map |-> [m EXCEPT ![index] = new], tag |-> "None", tr |-> NoTransition]
    ELSE IF m[index].epoch # new.epoch
    THEN [map |-> m, tag |-> "Panic", tr |-> NoTransition]
    ELSE LET old == m[index].last IN
         [map |-> [m EXCEPT ![index].last = new.last],
          tag |-> IF old = new.init THEN "None" ELSE "Some",
          tr  |-> IF old = new.init THEN NoTransition
                  ELSE Transition(index, new.epoch, old, new.last)]

\* next() that folds one entry of other and returns what the closure returned
flat_map_next_one_entry(m, o, order, pos) ==
    IF pos >= Len(order)
    THEN [map |-> m, tag |-> "None", tr |-> NoTransition, pos |-> pos]
    ELSE LET r == replace_entry(m, order[pos + 1], o[order[pos + 1]]) IN
         [map |-> r.map, tag |-> r.tag, tr |-> r.tr, pos |-> pos + 1]

\* one call of next() on the FlatMap returned by Tracker::consume_by_replace:
\* entries of `other` are folded, in iteration order from position pos + 1,
\* until the closure yields an item or the map iterator is exhausted
RECURSIVE flat_map_next(_, _, _, _)
flat_map_next(m, o, order, pos) ==
    IF pos >= Len(order)
    THEN [map |-> m, tag |-> "None", tr |-> NoTransition, pos |-> pos]
    ELSE LET r == replace_entry(m, order[pos + 1], o[order[pos + 1]]) IN
         IF r.tag = "None"
         THEN flat_map_next(r.map, o, order, pos + 1)
         ELSE [map |-> r.map, tag |-> r.tag, tr |-> r.tr, pos |-> pos + 1]

\* loop body that commits the union without testing it for exclusivity
extend_entry_unchecked(m, index, new) ==
    IF ~m[index].present
    THEN [map |-> [m EXCEPT ![index] = new], tag |-> "Continue", tr |-> NoTransition]
    ELSE IF m[index].epoch # new.epoch
    THEN [map |-> m, tag |-> "Panic", tr |-> NoTransition]
    ELSE [map |-> [m EXCEPT ![index].last = BitOr(m[index].last, new.last)], tag |-> "Continue",
          tr |-> NoTransition]

\* body of the loop of Tracker::consume_by_extend, applied to one entry of `other`
extend_entry(m, index, new) ==
    IF ~m[index].present
    THEN [map |-> [m EXCEPT ![index] = new], tag |-> "Continue", tr |-> NoTransition]
    ELSE IF m[index].epoch # new.epoch
    THEN [map |-> m, tag |-> "Panic", tr |-> NoTransition]
    ELSE LET old == m[index].last IN
         IF old # new.last
         THEN LET extended == BitOr(old, new.last) IN
              IF is_exclusive(extended)
              THEN [map |-> m, tag |-> "Err", tr |-> Transition(index, new.epoch, old, new.last)]
              ELSE [map |-> [m EXCEPT ![index].last = extended], tag |-> "Continue",
                    tr |-> NoTransition]
         ELSE [map |-> m, tag |-> "Continue", tr |-> NoTransition]

\* the loop of Tracker::consume_by_extend from position k of the iteration order
RECURSIVE extend_loop(_, _, _, _)
extend_loop(m, o, order, k) ==
    IF k > Len(order)
    THEN [map |-> m, tag |-> "Ok", visited |-> k - 1, tr |-> NoTransition]
    ELSE LET r == extend_entry(m, order[k], o[order[k]]) IN
         IF r.tag = "Continue"
         THEN extend_loop(r.map, o, order, k + 1)
         ELSE [map |-> r.map, tag |-> r.tag, visited |-> k - 1, tr |-> r.tr]

\* consume_by_extend that restores self when it reports a hazard
consume_by_extend_rollback(m, o, order) ==
    LET r == extend_loop(m, o, order, 1) IN
    IF r.tag = "Err" THEN [r EXCEPT !.map = m] ELSE r

\* Tracker::consume_by_extend
consume_by_extend(m, o, order) == extend_loop(m, o, order, 1)

\* used that rebuilds every handle with the first generation
used_first_generation(m, order) == [k \in 1..Len(order) |-> <<order[k], 1>>]

\* Tracker::used: the handles (index, epoch) yielded by one traversal of the map
used(m, order) == [k \in 1..Len(order) |-> <<order[k], m[order[k]].epoch>>]

(* ------------------------- state machine ------------------------------- *)
\* the record of the last call: its arguments and what it returned
NoRet ==
    [op |-> "new", self |-> "A", other |-> "A", index |-> 0, epoch |-> 0, usage |-> 0,
     permit |-> 0, default |-> 0, tag |-> "", old |-> 0, initialized |-> FALSE,
     order |-> <<>>, visited |-> 0, tr |-> NoTransition, ids |-> <<>>,
     item |-> <<>>, prior |-> <<>>]

\* the iterator returned by consume_by_replace, while it is alive
NoIter ==
    [live |-> FALSE, self |-> "A", other |-> "A", order |-> <<>>, pos |-> 0,
     out |-> <<>>, pre |-> EmptyMap]

\* Tracker::new for both trackers
Init ==
    /\ map = [t \in Trackers |-> EmptyMap]
    /\ ret = NoRet
    /\ iter = NoIter
    /\ fatal = FALSE
    /\ nops = 0
    /\ hist = <<>>
    /\ views = [t \in Trackers |-> EmptyViews]
    /\ walks = <<>>

\* tracker t is borrowed mutably: it is the self of the live iterator of
\* consume_by_replace
MutBorrowed(t) == iter.live /\ iter.self = t

\* tracker t is borrowed shared: it is the other of the live iterator of
\* consume_by_replace, or an iterator of used() over it is alive
SharedBorrowed(t) ==
    \/ iter.live /\ iter.other = t
    \/ \E k \in 1..Len(walks) : walks[k].self = t

\* a &mut self method of tracker t can be called: no panic so far, no live borrow
CanCall(t) == ~fatal /\ ~MutBorrowed(t) /\ ~SharedBorrowed(t)

\* tracker t can be read through a shared reference: no panic so far, no live
\* mutable borrow
CanRead(t) == ~fatal /\ ~MutBorrowed(t)

TransitCall(t, index, epoch, usage, permit) ==
    /\ CanCall(t)
    /\ LET r == transit(map[t], index, epoch, usage, permit) IN
       /\ map' = [map EXCEPT ![t] = r.map]
       /\ fatal' = (r.tag = "Panic")
       /\ ret' = [NoRet EXCEPT !.op = "transit", !.self = t, !.index = index, !.epoch = epoch,
                               !.usage = usage, !.permit = permit, !.tag = r.tag, !.old = r.old]
    /\ UNCHANGED iter

QueryCall(t, index, epoch, default) ==
    /\ CanCall(t)
    /\ LET r == query(map[t], index, epoch, default) IN
       /\ map' = [map EXCEPT ![t] = r.map]
       /\ fatal' = (r.tag = "Panic")
       /\ ret' = [NoRet EXCEPT !.op = "query", !.self = t, !.index = index, !.epoch = epoch,
                               !.usage = r.usage, !.default = default, !.tag = r.tag,
                               !.initialized = r.initialized]
    /\ UNCHANGED iter

RemoveCall(t, index, epoch) ==
    /\ CanCall(t)
    /\ LET r == remove(map[t], index, epoch) IN
       /\ map' = [map EXCEPT ![t] = r.map]
       /\ fatal' = (r.tag = "Panic")
       /\ ret' = [NoRet EXCEPT !.op = "remove", !.self = t, !.index = index, !.epoch = epoch,
                               !.tag = r.tag]
    /\ UNCHANGED iter

ConsumeByExtendCall(t, o, order) ==
    /\ t # o
    /\ CanCall(t) /\ CanRead(o)
    /\ order \in Orders(Keys(map[o]))
    /\ LET r == consume_by_extend(map[t], map[o], order) IN
       /\ map' = [map EXCEPT ![t] = r.map]
       /\ fatal' = (r.tag = "Panic")
       /\ ret' = [NoRet EXCEPT !.op = "consume_by_extend", !.self = t, !.other = o,
                               !.order = order, !.tag = r.tag, !.visited = r.visited,
                               !.tr = r.tr]
    /\ UNCHANGED iter

\* consume_by_replace only builds the lazy iterator; nothing is folded yet
ConsumeByReplaceCall(t, o, order) ==
    /\ t # o
    /\ CanCall(t) /\ CanRead(o)
    /\ order \in Orders(Keys(map[o]))
    /\ iter' = [live |-> TRUE, self |-> t, other |-> o, order |-> order, pos |-> 0,
                out |-> <<>>, pre |-> map[t]]
    /\ ret' = [NoRet EXCEPT !.op = "consume_by_replace", !.self = t, !.other = o,
                            !.order = order, !.tag = "Iterator"]
    /\ UNCHANGED <<map, fatal>>

\* the caller advances the iterator once
IterNext ==
    /\ ~fatal
    /\ iter.live
    /\ LET r == flat_map_next(map[iter.self], map[iter.other], iter.order, iter.pos) IN
       /\ map' = [map EXCEPT ![iter.self] = r.map]
       /\ fatal' = (r.tag = "Panic")
       /\ iter' = [iter EXCEPT !.pos = r.pos,
                               !.out = IF r.tag = "Some" THEN Append(@, r.tr) ELSE @]
       /\ ret' = [NoRet EXCEPT !.op = "next", !.self = iter.self, !.other = iter.other,
                               !.order = iter.order, !.tag = r.tag, !.visited = r.pos,
                               !.tr = r.tr]

\* the caller drops the iterator, exhausted or not
IterDrop ==
    /\ ~fatal
    /\ iter.live
    /\ iter' = NoIter
    /\ UNCHANGED <<map, ret, fatal>>

GetWithExtendedUsageCall(t, index, epoch, usage) ==
    /\ CanCall(t)
    /\ LET r == get_with_extended_usage(map[t], index, epoch, usage) IN
       /\ map' = [map EXCEPT ![t] = r.map]
       /\ fatal' = (r.tag = "Panic")
       /\ ret' = [NoRet EXCEPT !.op = "get_with_extended_usage", !.self = t, !.index = index,
                               !.epoch = epoch, !.usage = usage, !.tag = r.tag, !.old = r.old,
                               !.item = r.item, !.prior = r.prior]
    /\ UNCHANGED iter

GetWithReplacedUsageCall(t, index, epoch, usage) ==
    /\ CanCall(t)
    /\ LET r == get_with_replaced_usage(map[t], index, epoch, usage) IN
       /\ map' = [map EXCEPT ![t] = r.map]
       /\ fatal' = (r.tag \in {"Panic", "Unreachable"})
       /\ ret' = [NoRet EXCEPT !.op = "get_with_replaced_usage", !.self = t, !.index = index,
                               !.epoch = epoch, !.usage = usage, !.tag = r.tag, !.old = r.old,
                               !.item = r.item, !.prior = r.prior]
    /\ UNCHANGED iter

DummyQueryCall(t, index, epoch) ==
    /\ ~fatal
    /\ LET r == dummy_query(views[t], index, epoch) IN
       /\ views' = [views EXCEPT ![t] = r.map]
       /\ fatal' = (r.tag = "Panic")
       /\ ret' = [NoRet EXCEPT !.op = "dummy_query", !.self = t, !.index = index,
                               !.epoch = epoch, !.tag = r.tag]
    /\ UNCHANGED <<map, iter>>

DummyRemoveCall(t, index, epoch) ==
    /\ ~fatal
    /\ LET r == dummy_remove(views[t], index, epoch) IN
       /\ views' = [views EXCEPT ![t] = r.map]
       /\ fatal' = (r.tag = "Panic")
       /\ ret' = [NoRet EXCEPT !.op = "dummy_remove", !.self = t, !.index = index,
                               !.epoch = epoch, !.tag = r.tag]
    /\ UNCHANGED <<map, iter>>

DummyConsumeCall(t, o, order) ==
    /\ ~fatal
    /\ t # o
    /\ order \in Orders(Keys(views[o]))
    /\ LET r == dummy_consume(views[t], views[o], order) IN
       /\ views' = [views EXCEPT ![t] = r.map]
       /\ fatal' = (r.tag = "Panic")
       /\ ret' = [NoRet EXCEPT !.op = "dummy_consume", !.self = t, !.other = o,
                               !.order = order, !.tag = r.tag]
    /\ UNCHANGED <<map, iter>>

\* used() only builds the lazy iterator over the map of t
UsedCall(t, order) ==
    /\ CanRead(t)
    /\ order \in Orders(Keys(map[t]))
    /\ walks' = Append(walks, [self |-> t, order |-> order, pos |-> 0, out |-> <<>>])
    /\ ret' = [NoRet EXCEPT !.op = "used", !.self = t, !.order = order, !.tag = "Iterator"]
    /\ UNCHANGED <<map, iter, fatal>>

\* the caller advances the k-th live iterator of used() once
UsedNext(k) ==
    /\ ~fatal
    /\ k \in 1..Len(walks)
    /\ LET w == walks[k] IN
       IF w.pos < Len(w.order)
       THEN LET id == used(map[w.self], w.order)[w.pos + 1] IN
            /\ walks' = [walks EXCEPT ![k].pos = w.pos + 1, ![k].out = Append(w.out, id)]
            /\ ret' = [NoRet EXCEPT !.op = "used_next", !.self = w.self, !.order = w.order,
                                    !.tag = "Some", !.visited = w.pos + 1,
                                    !.ids = Append(w.out, id)]
       ELSE /\ walks' = walks
            /\ ret' = [NoRet EXCEPT !.op = "used_next", !.self = w.self, !.order = w.order,
                                    !.tag = "None", !.visited = w.pos, !.ids = w.out]
    /\ UNCHANGED <<map, iter, fatal>>

\* the caller drops the k-th live iterator of used(), exhausted or not
UsedDrop(k) ==
    /\ ~fatal
    /\ k \in 1..Len(walks)
    /\ walks' = [j \in 1..(Len(walks) - 1) |-> IF j < k THEN walks[j] ELSE walks[j + 1]]
    /\ UNCHANGED <<map, ret, iter, fatal>>

\* a call that counts against the budget of calls of a run
Counted == nops < MaxOps /\ nops' = nops + 1 /\ UNCHANGED <<hist, views, walks>>

Uncounted == UNCHANGED <<nops, hist, views, walks>>

\* a recording scope and its parent: the parent tracker "A" learns of resources
\* by query and forgets them by remove, the scope's tracker "B" is recorded
\* with transit, and the scope is folded into the parent by either merge
Next ==
    \/ \E h \in Handles, u \in Flags : Counted /\ QueryCall("A", h[1], h[2], u)
    \/ \E h \in Handles : Counted /\ RemoveCall("A", h[1], h[2])
    \/ \E h \in Handles, u \in Flags, p \in {EXTEND, REPLACE} :
          Counted /\ TransitCall("B", h[1], h[2], u, p)
    \/ \E order \in Orders(Keys(map["B"])) : Counted /\ ConsumeByExtendCall("A", "B", order)
    \/ \E order \in Orders(Keys(map["B"])) : Counted /\ ConsumeByReplaceCall("A", "B", order)
    \/ Uncounted /\ IterNext
    \/ Uncounted /\ IterDrop

Spec == Init /\ [][Next]_vars

\* one tracker, every usage flag and every permit
NextTracker ==
    \/ \E h \in Handles, u \in Flags, p \in Permits :
          Counted /\ TransitCall("A", h[1], h[2], u, p)
    \/ \E h \in Handles, u \in Flags : Counted /\ QueryCall("A", h[1], h[2], u)
    \/ \E h \in Handles : Counted /\ RemoveCall("A", h[1], h[2])

SpecTracker == Init /\ [][NextTracker]_vars

\* a call of used() is counted; advancing and dropping its iterator are not
CountedUsed == nops < MaxOps /\ nops' = nops + 1 /\ UNCHANGED <<hist, views>>

UncountedUsed == UNCHANGED <<nops, hist, views>>

\* the handles in use are listed, by lazy traversals that interleave with the
\* other calls, while a scope is recorded and folded into its parent; the parent
\* learns of resources in the read mode, the scope requests read and write
NextUsed ==
    \/ \E h \in Handles : Counted /\ QueryCall("A", h[1], h[2], MAP_READ)
    \/ \E h \in Handles : Counted /\ RemoveCall("A", h[1], h[2])
    \/ \E h \in Handles, u \in {MAP_READ, MAP_WRITE} :
          Counted /\ TransitCall("B", h[1], h[2], u, EXTEND)
    \/ \E order \in Orders(Keys(map["B"])) : Counted /\ ConsumeByExtendCall("A", "B", order)
    \/ \E order \in Orders(Keys(map["B"])) : Counted /\ ConsumeByReplaceCall("A", "B", order)
    \/ Uncounted /\ IterNext
    \/ Uncounted /\ IterDrop
    \/ \E t \in Trackers : \E order \in Orders(Keys(map[t])) : CountedUsed /\ UsedCall(t, order)
    \/ \E k \in 1..Len(walks) : UncountedUsed /\ UsedNext(k)
    \/ \E k \in 1..Len(walks) : UncountedUsed /\ UsedDrop(k)

SpecUsed == Init /\ [][NextUsed]_vars

\* a call of a DummyTracker method is counted
CountedView == nops < MaxOps /\ nops' = nops + 1 /\ UNCHANGED <<hist, walks>>

\* two presence trackers, each queried, removed from and merged into the other
NextViews ==
    \/ \E t \in Trackers, h \in Handles : CountedView /\ DummyQueryCall(t, h[1], h[2])
    \/ \E t \in Trackers, h \in Handles : CountedView /\ DummyRemoveCall(t, h[1], h[2])
    \/ \E t \in Trackers, o \in Trackers :
          \E order \in Orders(Keys(views[o])) : CountedView /\ DummyConsumeCall(t, o, order)

SpecViews == Init /\ [][NextViews]_vars

\* one tracker, reached through transit and through the two accessors
NextAccess ==
    \/ \E h \in Handles, u \in Flags, p \in Permits :
          Counted /\ TransitCall("A", h[1], h[2], u, p)
    \/ \E h \in Handles, u \in Flags : Counted /\ GetWithExtendedUsageCall("A", h[1], h[2], u)
    \/ \E h \in Handles, u \in Flags : Counted /\ GetWithReplacedUsageCall("A", h[1], h[2], u)

SpecAccess == Init /\ [][NextAccess]_vars

\* one handle, transit under the extend-only permit, the requested usages recorded
NextExtend ==
    \E u \in AllUsages :
        /\ Len(hist) < MaxSeq
        /\ TransitCall("A", 1, 1, u, EXTEND)
        /\ hist' = Append(hist, u)
        /\ UNCHANGED <<nops, views, walks>>

SpecExtend == Init /\ [][NextExtend]_vars

(* ------------------------- properties ---------------------------------- *)
\* a usage contains the write flag (stated on the bits, not through is_exclusive)
HasWrite(u) == (u \div MAP_WRITE) % 2 = 1

\* the set of flags of a usage value
FlagsOf(u) == {f \in Flags : (u \div f) % 2 = 1}
UsageOf(F) == (IF MAP_READ \in F THEN MAP_READ ELSE 0) + (IF MAP_WRITE \in F THEN MAP_WRITE ELSE 0)
              + (IF TRANSFER_SRC \in F THEN TRANSFER_SRC ELSE 0)
Union(a, b) == UsageOf(FlagsOf(a) \cup FlagsOf(b))

AllowsExtend(p) == p \in {EXTEND, EXTEND + REPLACE}
AllowsReplace(p) == p \in {REPLACE, EXTEND + REPLACE}

\* the step is a call of the method op that returned (or panicked)
IsCall(op) == ret'.op = op /\ (nops' = nops + 1 \/ hist' # hist)

\* the entry the call of this step addresses, before and after the call
PreEntry == map[ret'.self][ret'.index]
PostEntry == map'[ret'.self][ret'.index]

\* the call of this step meets no entry of another generation
SameGeneration == PreEntry.present => PreEntry.epoch = ret'.epoch

\* C1: transit decides in one fixed order: absent entry -> insert init = last =
\* usage, Init; usage = last -> Keep, no change, whatever the permit; else extend
\* permitted and the union non-exclusive -> last = union, Extend{old}; else
\* replace permitted -> last = usage, Replace{old}; else hazard.
C1_TransitOrder ==
    [][(IsCall("transit") /\ SameGeneration) =>
        LET u == ret'.usage
            p == ret'.permit
            old == PreEntry.last
        IN  IF ~PreEntry.present
            THEN /\ ret'.tag = "Init"
                 /\ map' = [map EXCEPT ![ret'.self][ret'.index] = Track(u, u, ret'.epoch)]
            ELSE IF u = old
            THEN ret'.tag = "Keep" /\ map' = map
            ELSE IF AllowsExtend(p) /\ ~HasWrite(Union(old, u))
            THEN /\ ret'.tag = "Extend" /\ ret'.old = old
                 /\ map' = [map EXCEPT ![ret'.self][ret'.index].last = Union(old, u)]
            ELSE IF AllowsReplace(p)
            THEN /\ ret'.tag = "Replace" /\ ret'.old = old
                 /\ map' = [map EXCEPT ![ret'.self][ret'.index].last = u]
            ELSE ret'.tag = "Err"]_vars

\* an extension won over a replacement that the permit allowed as well
C1_Witness ==
    /\ ret.op = "transit" /\ ret.tag = "Extend" /\ ret.permit = EXTEND + REPLACE
    /\ map[ret.self][ret.index].last = Union(ret.old, ret.usage)
    /\ ret.old # ret.usage

RECURSIVE UnionAll(_)
UnionAll(s) == IF s = <<>> THEN 0 ELSE Union(Head(s), UnionAll(Tail(s)))

PairwiseShareable(s) ==
    \A i, j \in 1..Len(s) : i # j => ~HasWrite(Union(s[i], s[j]))

\* C2: transit calls on one handle under the extend-only permit whose requested
\* usages are pairwise non-exclusive never return a hazard, and the last usage
\* is the union of all requested usages.
C2_ExtendOnlyUnion ==
    (hist # <<>> /\ PairwiseShareable(hist)) =>
        /\ ret.op = "transit" /\ ret.tag \in {"Init", "Keep", "Extend"}
        /\ map["A"][1].present
        /\ map["A"][1].last = UnionAll(hist)
        /\ map["A"][1].init = hist[1]

\* three calls that built the union of two read modes
C2_Witness ==
    /\ Len(hist) >= 3 /\ PairwiseShareable(hist)
    /\ hist[1] = MAP_READ /\ hist[2] = TRANSFER_SRC
    /\ map["A"][1].last = MAP_READ + TRANSFER_SRC

\* the previous call was the transit that created the entry this call addresses
SecondTransit ==
    /\ IsCall("transit")
    /\ ret.op = "transit" /\ ret.tag = "Init"
    /\ ret.self = ret'.self /\ ret.index = ret'.index /\ ret.epoch = ret'.epoch

\* C3: after a first transit with usage a, a second transit with a different
\* usage b, a or b being a write, returns a hazard carrying a under the
\* extend-only permit, and Replace{old = a} with last = b under a permit that
\* includes replace.
C3_WriteSecondAccess ==
    [][(SecondTransit /\ ret'.usage # ret.usage /\ (HasWrite(ret.usage) \/ HasWrite(ret'.usage))) =>
        /\ ret'.permit = EXTEND => (ret'.tag = "Err" /\ ret'.old = ret.usage)
        /\ AllowsReplace(ret'.permit) =>
              (ret'.tag = "Replace" /\ ret'.old = ret.usage /\ PostEntry.last = ret'.usage)]_vars

\* a hazard reported for a write after a read under the extend-only permit
C3_Witness ==
    /\ ret.op = "transit" /\ ret.tag = "Err" /\ ret.permit = EXTEND
    /\ ret.old = MAP_READ /\ ret.usage = MAP_WRITE
    /\ map[ret.self][ret.index].init = MAP_READ

\* C4: a transit that fails with a hazard returns the entry's last usage and
\* leaves every entry of the tracker as it was.
C4_HazardKeepsState ==
    [][(IsCall("transit") /\ ret'.tag = "Err") =>
        /\ PreEntry.present
        /\ ret'.old = PreEntry.last
        /\ map' = map]_vars

\* a hazard on an entry whose last usage is no longer its initial usage
C4_Witness ==
    /\ ret.op = "transit" /\ ret.tag = "Err"
    /\ map[ret.self][ret.index].last = ret.old
    /\ map[ret.self][ret.index].init # ret.old

\* C10: query on an untracked handle inserts init = last = default and returns
\* (default, first touch); query on a tracked handle returns the last usage,
\* not a first touch, and changes nothing, whatever the default; so a query
\* right after a query of the same handle returns the same usage, not a first
\* touch.
C10_Query ==
    [][(IsCall("query") /\ SameGeneration) =>
        /\ ret'.tag = "Query"
        /\ IF ~PreEntry.present
           THEN /\ ret'.usage = ret'.default /\ ret'.initialized
                /\ map' = [map EXCEPT ![ret'.self][ret'.index] =
                                          Track(ret'.default, ret'.default, ret'.epoch)]
           ELSE /\ ret'.usage = PreEntry.last /\ ~ret'.initialized
                /\ map' = map
        /\ (ret.op = "query" /\ ret.tag = "Query" /\ ret.self = ret'.self
                /\ ret.index = ret'.index) =>
              (~ret'.initialized /\ ret'.usage = ret.usage)]_vars

\* a query of a tracked handle whose last usage is neither the default
\* supplied nor the initial usage
C10_Witness ==
    /\ ret.op = "query" /\ ret.tag = "Query" /\ ~ret.initialized
    /\ ret.usage # ret.default
    /\ map[ret.self][ret.index].last = ret.usage
    /\ map[ret.self][ret.index].init # ret.usage

(* ---------------- properties of the merge operations ------------------- *)
\* every entry of other has been folded by the iterator of consume_by_replace
Folded == iter.live /\ ~fatal /\ iter.pos = Len(iter.order)

\* the positions of the emitted transitions that name slot i
TransitionsFor(i) == {k \in 1..Len(iter.out) : iter.out[k].index = i}

\* slots tracked by self before consume_by_replace and by other
SharedAtCall == Keys(iter.pre) \cap Keys(map[iter.other])

\* self's last usage equals other's initial usage and other went on to another usage
ForwardedChange(i) ==
    /\ iter.pre[i].last = map[iter.other][i].init
    /\ map[iter.other][i].last # map[iter.other][i].init

ExpectedTransition(i) ==
    Transition(i, map[iter.other][i].epoch, iter.pre[i].last, map[iter.other][i].last)

\* C5 as stated: with self.last = other.init and other.last # other.init,
\* consume_by_replace emits exactly one transition for the resource, namely
\* (R, self.last .. other.last).
C5_Original ==
    Folded => \A i \in SharedAtCall :
        ForwardedChange(i) =>
            /\ Cardinality(TransitionsFor(i)) = 1
            /\ \A k \in TransitionsFor(i) : iter.out[k] = ExpectedTransition(i)

\* C5 amended: with self.last = other.init and other.last # other.init,
\* consume_by_replace emits no transition for the resource, and self's last
\* usage becomes other's last usage.
C5_Amended ==
    Folded => \A i \in SharedAtCall :
        ForwardedChange(i) =>
            /\ TransitionsFor(i) = {}
            /\ map[iter.self][i].last = map[iter.other][i].last
            /\ map[iter.self][i].init = iter.pre[i].init

\* self held READ, other went READ -> WRITE, and the fold is complete
C5_Witness ==
    /\ Folded
    /\ \E i \in SharedAtCall :
          /\ ForwardedChange(i)
          /\ iter.pre[i].last = MAP_READ
          /\ map[iter.other][i].last = MAP_WRITE

\* C6: consume_by_replace emits nothing for a resource absent from self, and
\* for a resource of both trackers it emits (handle, old .. other.last) exactly
\* when old, self's last usage before the swap, differs from other's initial
\* usage.
C6_EmitRule ==
    Folded =>
        /\ \A k \in 1..Len(iter.out) : iter.out[k].index \in SharedAtCall
        /\ \A i \in SharedAtCall :
              IF iter.pre[i].last # map[iter.other][i].init
              THEN /\ Cardinality(TransitionsFor(i)) = 1
                   /\ \A k \in TransitionsFor(i) : iter.out[k] = ExpectedTransition(i)
              ELSE TransitionsFor(i) = {}

\* a fold that emitted for a shared resource and cloned another one in silently
C6_Witness ==
    /\ Folded
    /\ \E i \in SharedAtCall :
          /\ iter.pre[i].last # map[iter.other][i].init
          /\ \E k \in TransitionsFor(i) : iter.out[k] = ExpectedTransition(i)
    /\ \E j \in Keys(map[iter.other]) : ~iter.pre[j].present /\ map[iter.self][j].present

\* C7: every transition consume_by_replace emits is a change of usage (old
\* differs from new), and no resource gets more than one transition.
C7_Minimal ==
    /\ \A k \in 1..Len(iter.out) : iter.out[k].old # iter.out[k].new
    /\ \A i \in Indices : Cardinality(TransitionsFor(i)) <= 1

\* C16: once consume_by_replace has been traversed to the end, self's last usage
\* of every resource of other is other's last usage; a resource that was absent
\* from self is other's entry; a resource that was present keeps its init (and
\* generation); resources of self alone are unchanged; and no step reported a
\* hazard, whatever the forwarded usage.
C16_ReplaceResult ==
    Folded => /\ ret.tag \notin {"Err", "Panic"}
              /\ \A i \in Indices :
                    LET s == map[iter.self][i]
                        o == map[iter.other][i]
                        p == iter.pre[i] IN
                    /\ o.present => s.present /\ s.last = o.last
                    /\ (o.present /\ ~p.present) => s = o
                    /\ (o.present /\ p.present) => s.init = p.init /\ s.epoch = p.epoch
                    /\ ~o.present => s = p

\* a complete fold that forwarded a write over self's read and cloned another
\* resource in
C16_Witness ==
    /\ Folded
    /\ \E i \in SharedAtCall :
          /\ iter.pre[i].last = MAP_READ
          /\ map[iter.other][i].last = MAP_WRITE
          /\ map[iter.self][i].last = MAP_WRITE
    /\ \E j \in Keys(map[iter.other]) : ~iter.pre[j].present /\ map[iter.self][j] = map[iter.other][j]

\* C17: from its insertion to its removal an entry keeps its init and its
\* generation: no step of query, transit, consume_by_replace or
\* consume_by_extend changes them on an entry that is tracked before and after
\* the step; only last changes.
C17_InitFixed ==
    [][\A t \in Trackers : \A i \in Indices :
          (map[t][i].present /\ map'[t][i].present) =>
              /\ map'[t][i].init = map[t][i].init
              /\ map'[t][i].epoch = map[t][i].epoch]_vars

\* a fold of consume_by_replace changed the last usage of an entry that keeps
\* another init, after a transit replaced a usage in the other tracker
C17_Witness ==
    /\ iter.live /\ ret.op = "next"
    /\ \E i \in SharedAtCall :
          /\ map[iter.self][i].last # iter.pre[i].last
          /\ map[iter.self][i].init # map[iter.self][i].last
          /\ map[iter.other][i].init # map[iter.other][i].last
          /\ is_exclusive(map[iter.other][i].init)

\* the usage a step of transit or of a merge brings to slot i
Brought(i) == IF ret'.op = "transit" THEN ret'.usage ELSE map[ret'.other][i].last

\* the step wrote to slot i of t the union of the old and the brought usage, and
\* the union is not exclusive
WroteCheckedUnion(t, i) ==
    /\ map'[t][i].last = Union(map[t][i].last, Brought(i))
    /\ ~HasWrite(map'[t][i].last)

\* the step is a transit under a permit with REPLACE that wrote the requested usage
WrotePermittedReplacement(t, i) ==
    /\ ret'.op = "transit" /\ AllowsReplace(ret'.permit)
    /\ map'[t][i].last = ret'.usage

\* the step changed the last usage of an entry that t tracks before and after it
LastChanged(t, i) ==
    /\ map[t][i].present /\ map'[t][i].present
    /\ map'[t][i].last # map[t][i].last

\* C18 as stated: every step of transit, consume_by_extend or consume_by_replace
\* that changes the last usage of an existing entry writes an OR-union checked
\* to be non-exclusive or a replacement made under a permit that allows replace.
C18_Original ==
    [][\A t \in Trackers : \A i \in Indices :
          LastChanged(t, i) =>
              /\ ret'.op \in {"transit", "consume_by_extend", "next"}
              /\ WroteCheckedUnion(t, i) \/ WrotePermittedReplacement(t, i)]_vars

\* C18 amended: every step of transit or consume_by_extend that changes the last
\* usage of an existing entry writes an OR-union checked to be non-exclusive or
\* (transit only) a replacement made under a permit that allows replace; a step
\* of consume_by_replace writes other's last usage with no permit and no check
\* of exclusivity.
C18_Amended ==
    [][\A t \in Trackers : \A i \in Indices :
          LastChanged(t, i) =>
              /\ ret'.op \in {"transit", "consume_by_extend", "next"}
              /\ ret'.op # "next" => WroteCheckedUnion(t, i) \/ WrotePermittedReplacement(t, i)
              /\ ret'.op = "next" => map'[t][i].last = map[ret'.other][i].last]_vars

\* other replaced a read by a write under a permit with REPLACE, and a step of
\* consume_by_replace wrote that write over self's transfer usage
C18_Witness ==
    /\ iter.live /\ ret.op = "next"
    /\ \E i \in SharedAtCall :
          /\ iter.pre[i].last = TRANSFER_SRC
          /\ map[iter.other][i].init = MAP_READ
          /\ map[iter.other][i].last = MAP_WRITE
          /\ map[iter.self][i].last = MAP_WRITE

\* the trackers of a call of consume_by_extend made in this step
ExtSelf == map[ret'.self]
ExtOther == map[ret'.other]
ExtPost == map'[ret'.self]
ExtShared == Keys(ExtSelf) \cap Keys(ExtOther)
ExtConflict(i) ==
    /\ ExtSelf[i].last # ExtOther[i].last
    /\ HasWrite(Union(ExtSelf[i].last, ExtOther[i].last))
ExtMerged(i) ==
    IF ~ExtOther[i].present THEN ExtSelf[i]
    ELSE IF ~ExtSelf[i].present THEN ExtOther[i]
    ELSE [ExtSelf[i] EXCEPT !.last = Union(ExtSelf[i].last, ExtOther[i].last)]
ExtHazard(i) == Transition(i, ExtOther[i].epoch, ExtSelf[i].last, ExtOther[i].last)

\* C8: consume_by_extend returns Ok exactly when every shared resource has
\* equal last usages or a non-exclusive union; on Ok resources of other absent
\* from self are cloned in, shared ones get last = union, resources of self
\* alone are unchanged; otherwise the hazard names the first conflicting
\* resource of the iteration and the range old .. other.last.
C8_ExtendMerge ==
    [][(IsCall("consume_by_extend") /\ \A i \in ExtShared : ExtSelf[i].epoch = ExtOther[i].epoch) =>
        /\ ret'.tag \in {"Ok", "Err"}
        /\ (ret'.tag = "Ok") <=> (\A i \in ExtShared : ~ExtConflict(i))
        /\ ret'.tag = "Ok" => \A i \in Indices : ExtPost[i] = ExtMerged(i)
        /\ ret'.tag = "Err" =>
              \E k \in 1..Len(ret'.order) :
                  /\ ret'.order[k] \in ExtShared /\ ExtConflict(ret'.order[k])
                  /\ \A j \in 1..(k - 1) : ~(ret'.order[j] \in ExtShared /\ ExtConflict(ret'.order[j]))
                  /\ ret'.tr = ExtHazard(ret'.order[k])
        /\ map'[ret'.other] = map[ret'.other]]_vars

\* a merge that succeeded and extended a shared resource to the union of two reads
C8_Witness ==
    /\ ret.op = "consume_by_extend" /\ ret.tag = "Ok"
    /\ \E i \in Indices :
          /\ map["A"][i].present /\ map["B"][i].present
          /\ map["A"][i].last = MAP_READ + TRANSFER_SRC
          /\ map["B"][i].last # map["A"][i].last

\* C9: when consume_by_extend returns a hazard, the entries of other visited
\* before the offending one stay merged in self, and the offending entry and
\* the entries not yet visited are as they were in self before the call.
C9_PartialMerge ==
    [][(IsCall("consume_by_extend") /\ ret'.tag = "Err") =>
        LET order == ret'.order
            k == CHOOSE j \in 1..Len(order) : order[j] = ret'.tr.index
            before == {order[j] : j \in 1..(k - 1)}
        IN  /\ \A i \in before : ExtPost[i] = ExtMerged(i)
            /\ \A i \in Indices \ before : ExtPost[i] = ExtSelf[i]]_vars

\* a hazard reported after another entry of other had been cloned into self
C9_Witness ==
    /\ ret.op = "consume_by_extend" /\ ret.tag = "Err"
    /\ Len(ret.order) >= 2 /\ ret.order[1] # ret.tr.index
    /\ map["A"][ret.order[1]] = map["B"][ret.order[1]]
    /\ map["A"][ret.tr.index].last = ret.tr.old

(* ---------------- remove, used, generations ---------------------------- *)
\* the previous call removed the entry this call addresses
AfterRemove ==
    /\ ret.op = "remove" /\ ret.tag = "true"
    /\ ret.self = ret'.self /\ ret.index = ret'.index

\* C11: remove returns false and changes nothing on an untracked slot; on a
\* tracked slot of the same generation it returns true and erases exactly that
\* entry, after which query reports a first touch and transit returns Init on
\* the handle, with init = last = the usage now supplied.
C11_Remove ==
    [][/\ (IsCall("remove") /\ SameGeneration) =>
             IF PreEntry.present
             THEN /\ ret'.tag = "true"
                  /\ map' = [map EXCEPT ![ret'.self][ret'.index] = NoTrack]
             ELSE ret'.tag = "false" /\ map' = map
       /\ (AfterRemove /\ IsCall("query")) =>
             /\ ret'.initialized /\ ret'.usage = ret'.default
             /\ PostEntry = Track(ret'.default, ret'.default, ret'.epoch)
       /\ (AfterRemove /\ IsCall("transit")) =>
             /\ ret'.tag = "Init"
             /\ PostEntry = Track(ret'.usage, ret'.usage, ret'.epoch)]_vars

\* a tracked entry was removed by the third call of a run
C11_Witness ==
    /\ ret.op = "remove" /\ ret.tag = "true"
    /\ ~map[ret.self][ret.index].present
    /\ nops = 3

\* the handles of the entries a tracker holds
TrackedHandles(m) == {<<i, m[i].epoch>> : i \in Keys(m)}

\* the handles a traversal of used() has yielded
Yielded(ids) == {ids[k] : k \in 1..Len(ids)}

\* the step is a call of next() on an iterator of used()
IsUsedNext ==
    /\ ret'.op = "used_next"
    /\ nops' = nops /\ iter' = iter /\ Len(walks') = Len(walks)

\* C12: a traversal of used() yields exactly the handles tracked, one per
\* tracked slot and each once, with the generation stored in the entry; neither
\* the call nor the traversal changes the tracker, which stays as it is while
\* the iterator lives; and two traversals of the same tracker yield the same set.
C12_Used ==
    [][/\ (IsCall("used") \/ IsUsedNext) => map' = map
       /\ \A k \in 1..Len(walks) :
             (Len(walks') = Len(walks) /\ walks'[k].self = walks[k].self) =>
                 map'[walks[k].self] = map[walks[k].self]
       /\ IsUsedNext =>
             /\ Yielded(ret'.ids) \subseteq TrackedHandles(map[ret'.self])
             /\ \A j, k \in 1..Len(ret'.ids) : j # k => ret'.ids[j][1] # ret'.ids[k][1]
       /\ (IsUsedNext /\ ret'.tag = "None") =>
             /\ Yielded(ret'.ids) = TrackedHandles(map[ret'.self])
             /\ Len(ret'.ids) = Cardinality(Keys(map[ret'.self]))
             /\ \A k \in 1..Len(walks) :
                   (walks[k].self = ret'.self /\ walks[k].pos = Len(walks[k].order)) =>
                       Yielded(walks[k].out) = Yielded(ret'.ids)]_vars

\* a traversal of used() over the parent ended with two handles, one of the
\* second generation, while a second iterator of used() over the parent, in
\* the other order, is alive
C12_Witness ==
    /\ ret.op = "used_next" /\ ret.self = "A" /\ ret.tag = "None"
    /\ Len(ret.ids) = 2
    /\ \E k \in 1..2 : ret.ids[k][2] = 2
    /\ \E k \in 1..Len(walks) : walks[k].self = "A" /\ walks[k].order # ret.order

\* the step is a call of next() on the iterator of consume_by_replace
IsNext == iter.live /\ iter'.live /\ ret'.op = "next" /\ walks' = walks

\* slot i is tracked by both trackers of the merge, with different generations
Stale(self, other, i) == self[i].present /\ other[i].present /\ self[i].epoch # other[i].epoch

\* slot i makes consume_by_extend stop with a hazard
Hazardous(self, other, i) ==
    /\ self[i].present /\ other[i].present /\ self[i].epoch = other[i].epoch
    /\ self[i].last # other[i].last
    /\ HasWrite(Union(self[i].last, other[i].last))

\* slot i makes the closure of consume_by_replace yield a transition
Emitting(self, other, i) ==
    /\ self[i].present /\ other[i].present /\ self[i].epoch = other[i].epoch
    /\ self[i].last # other[i].init

\* the stored generation of slot i of tracker t is not replaced by this step
GenerationKept(t, i) == map'[t][i].present => map'[t][i].epoch = map[t][i].epoch

\* C13: an operation that meets an entry whose stored generation differs from
\* the incoming one (the handle's for query, transit and remove, other's
\* entry's for the merges) panics: it returns neither a result nor a hazard,
\* nothing runs afterwards, and the stored generation is not overwritten.
C13_StaleGeneration ==
    [][/\ ~fatal
       /\ \A op \in {"query", "transit", "remove"} :
             (IsCall(op) /\ PreEntry.present /\ PreEntry.epoch # ret'.epoch) =>
                 /\ fatal' /\ ret'.tag = "Panic"
                 /\ GenerationKept(ret'.self, ret'.index)
                 /\ \A i \in Indices \ {ret'.index} : map'[ret'.self][i] = map[ret'.self][i]
       /\ IsCall("consume_by_extend") =>
             \A k \in 1..Len(ret'.order) :
                 (/\ Stale(ExtSelf, ExtOther, ret'.order[k])
                  /\ \A j \in 1..(k - 1) : /\ ~Stale(ExtSelf, ExtOther, ret'.order[j])
                                           /\ ~Hazardous(ExtSelf, ExtOther, ret'.order[j])) =>
                     /\ fatal' /\ ret'.tag = "Panic"
                     /\ ExtPost[ret'.order[k]] = ExtSelf[ret'.order[k]]
       /\ IsNext =>
             \A k \in (iter.pos + 1)..Len(iter.order) :
                 (/\ Stale(map[iter.self], map[iter.other], iter.order[k])
                  /\ \A j \in (iter.pos + 1)..(k - 1) :
                        /\ ~Stale(map[iter.self], map[iter.other], iter.order[j])
                        /\ ~Emitting(map[iter.self], map[iter.other], iter.order[j])) =>
                     /\ fatal' /\ ret'.tag = "Panic"
                     /\ map'[iter.self][iter.order[k]] = map[iter.self][iter.order[k]]]_vars

\* the iterator of consume_by_replace panicked on a slot the scope holds in
\* another generation than its parent
C13_Witness ==
    /\ fatal /\ ret.op = "next" /\ ret.tag = "Panic"
    /\ \E i \in Indices : Stale(map["A"], map["B"], i)

(* ---------------- laziness of consume_by_replace ----------------------- *)
\* the entries of other at positions 1..n of the iteration order are folded into
\* self (cloned in, or last swapped), every other entry of self is as it was
\* when consume_by_replace was called
FoldedUpTo(self, n) ==
    \A i \in Indices :
        IF \E k \in 1..n : iter.order[k] = i
        THEN /\ self[i].present
             /\ self[i].last = map[iter.other][i].last
             /\ ~iter.pre[i].present => self[i] = map[iter.other][i]
             /\ iter.pre[i].present => self[i].init = iter.pre[i].init
        ELSE self[i] = iter.pre[i]

\* the positions after pos whose entry makes the closure yield a transition
EmittingAfter(pos) ==
    {k \in (pos + 1)..Len(iter.order) : Emitting(map[iter.self], map[iter.other], iter.order[k])}

\* the position next() stops at: the first emitting entry, or the end
StopAfter(pos) ==
    IF EmittingAfter(pos) = {} THEN Len(iter.order)
    ELSE CHOOSE k \in EmittingAfter(pos) : \A j \in EmittingAfter(pos) : k <= j

\* C20 as stated: the call of consume_by_replace leaves self unchanged, and each
\* step of the returned sequence folds one entry of other, so that after k steps
\* the k entries visited are folded and the rest of self holds its pre-call state.
C20_Original ==
    [][/\ IsCall("consume_by_replace") => map' = map /\ iter'.pos = 0
       /\ (IsNext /\ ~fatal') =>
             /\ iter'.pos = IF iter.pos < Len(iter.order) THEN iter.pos + 1 ELSE iter.pos
             /\ FoldedUpTo(map'[iter.self], iter'.pos)]_vars

\* C20 amended: the call of consume_by_replace leaves self unchanged; each step
\* of the returned sequence folds the entries of other from the first unvisited
\* one up to and including the first that yields a transition, or all the
\* remaining ones when none does; at every moment the entries visited so far
\* are folded and the rest of self holds its pre-call state.
C20_Amended ==
    [][/\ IsCall("consume_by_replace") => map' = map /\ iter'.pos = 0
       /\ (IsNext /\ ~fatal') =>
             /\ iter'.pos = StopAfter(iter.pos)
             /\ (ret'.tag = "Some") = (EmittingAfter(iter.pos) # {})
             /\ FoldedUpTo(map'[iter.self], iter'.pos)
       /\ (iter.live /\ ~IsNext) => FoldedUpTo(map'[iter.self], iter.pos)]_vars

\* a step that folded two entries of other at once: it cloned the first in
\* silently and yielded a transition for the second
C20_Witness ==
    /\ iter.live /\ ret.op = "next" /\ ret.tag = "Some"
    /\ iter.pos = 2 /\ Len(iter.out) = 1
    /\ iter.out[1].index = iter.order[2]
    /\ ~iter.pre[iter.order[1]].present

(* ---------------- the accessors ---------------------------------------- *)
\* what transit would do in the state before this step, under a permit
AsTransit(permit) == transit(map[ret'.self], ret'.index, ret'.epoch, ret'.usage, permit)

\* the accessor of this step changes the tracker and fails as transit does
\* under the permit, and on success returns the looked-up item
LikeTransit(permit) ==
    LET r == AsTransit(permit) IN
    /\ map' = [map EXCEPT ![ret'.self] = r.map]
    /\ (r.tag = "Panic") = (ret'.tag = "Panic")
    /\ (r.tag = "Err") = (ret'.tag = "Err")
    /\ r.tag = "Err" => ret'.old = r.old
    /\ r.tag \in {"Init", "Keep", "Extend", "Replace"} =>
          /\ ret'.tag = "Ok"
          /\ ret'.item = <<[index |-> ret'.index, epoch |-> ret'.epoch]>>

\* C14 as stated: each accessor acts as transit with its permit and on success
\* returns the item with the prior usage: old for Extend / Replace, none for
\* Init / Keep.
C14_Original ==
    [][/\ IsCall("get_with_extended_usage") =>
             /\ LikeTransit(EXTEND)
             /\ ret'.tag = "Ok" => ret'.prior = into_source(AsTransit(EXTEND).tag, AsTransit(EXTEND).old)
       /\ IsCall("get_with_replaced_usage") =>
             /\ LikeTransit(REPLACE)
             /\ ret'.tag = "Ok" => ret'.prior = into_source(AsTransit(REPLACE).tag, AsTransit(REPLACE).old)]_vars

\* C14 amended: each accessor acts as transit with its permit;
\* get-with-replaced-usage returns on success the item with the prior usage (old
\* for Replace, none for Init / Keep), get-with-extended-usage returns the item
\* alone, without the prior usage.
C14_Amended ==
    [][/\ IsCall("get_with_extended_usage") =>
             /\ LikeTransit(EXTEND)
             /\ ret'.prior = <<>>
       /\ IsCall("get_with_replaced_usage") =>
             /\ LikeTransit(REPLACE)
             /\ ret'.tag = "Ok" => ret'.prior = into_source(AsTransit(REPLACE).tag, AsTransit(REPLACE).old)]_vars

\* get-with-extended-usage extended a read by another read and returned the item
C14_Witness ==
    /\ ret.op = "get_with_extended_usage" /\ ret.tag = "Ok"
    /\ ret.item # <<>>
    /\ map[ret.self][ret.index].last = MAP_READ + TRANSFER_SRC
    /\ map[ret.self][ret.index].init # ret.usage

\* C19: transit returns Extend only under a permit that contains EXTEND and
\* Replace only under a permit that contains REPLACE, so the unreachable!() arm
\* of get_with_replaced_usage is never reached.
C19_PermitBoundsOutcome ==
    [][/\ IsCall("transit") =>
             /\ ret'.tag = "Extend" => AllowsExtend(ret'.permit)
             /\ ret'.tag = "Replace" => AllowsReplace(ret'.permit)
       /\ ret'.tag # "Unreachable"]_vars

\* get_with_replaced_usage replaced a read by another read, which an extend
\* permit would have merged
C19_Witness ==
    /\ ret.op = "get_with_replaced_usage" /\ ret.tag = "Ok"
    /\ ret.prior = <<MAP_READ>> /\ ret.usage = TRANSFER_SRC
    /\ map[ret.self][ret.index].last = TRANSFER_SRC

(* ---------------- the presence tracker --------------------------------- *)
\* the generations of the slots that both presence trackers hold are equal
ViewsAgree(v, o) ==
    \A i \in Indices : (v[i].present /\ o[i].present) => v[i].epoch = o[i].epoch

\* C15: query returns true and inserts the handle when its slot is vacant, and
\* returns false and changes nothing when the slot holds the handle; consume
\* leaves self with the union of the slots of self and other, every entry self
\* had unchanged and the new ones as other holds them, and it does not fail
\* when the generations of the shared slots match.
C15_Presence ==
    [][/\ IsCall("dummy_query") =>
             LET pre == views[ret'.self][ret'.index] IN
             /\ ~pre.present =>
                   /\ ret'.tag = "true"
                   /\ views' = [views EXCEPT ![ret'.self][ret'.index] = View(ret'.epoch)]
             /\ (pre.present /\ pre.epoch = ret'.epoch) =>
                   ret'.tag = "false" /\ views' = views
       /\ IsCall("dummy_consume") =>
             LET v == views[ret'.self]
                 o == views[ret'.other] IN
             /\ views'[ret'.other] = o
             /\ \A i \in Indices : v[i].present => views'[ret'.self][i] = v[i]
             /\ ViewsAgree(v, o) =>
                   /\ ret'.tag = "Ok" /\ ~fatal'
                   /\ \A i \in Indices :
                         /\ views'[ret'.self][i].present = (v[i].present \/ o[i].present)
                         /\ ~v[i].present => views'[ret'.self][i] = o[i]]_vars

\* a consume returned and left self with the slots of other and a slot of its
\* own that other does not hold
C15_Witness ==
    /\ ret.op = "dummy_consume" /\ ret.tag = "Ok"
    /\ Len(ret.order) >= 1
    /\ \A i \in Indices : views[ret.other][i].present => views[ret.self][i] = views[ret.other][i]
    /\ \E i \in Indices : views[ret.self][i].present /\ ~views[ret.other][i].present

TypeOK ==
    /\ map \in [Trackers -> [Indices -> [present : BOOLEAN, init : AllUsages, last : AllUsages,
                                         epoch : {0} \cup Epochs]]]
    /\ fatal \in BOOLEAN
    /\ nops \in 0..MaxOps
    /\ views \in [Trackers -> [Indices -> [present : BOOLEAN, epoch : {0} \cup Epochs]]]
    /\ Len(walks) <= MaxOps
    /\ \A k \in 1..Len(walks) : walks[k].self \in Trackers /\ walks[k].pos \in 0..Len(walks[k].order)

====
